---- MODULE Spec2Model ----
(***************************************************************************)
(* Cat detection and size-analysis pipeline of backend_catshop.            *)
(*                                                                         *)
(*   app/services/detect_cat.py    CatDetector, get_detector, detect_cat   *)
(*   app/services/analysis_cat.py  analyze_cat                             *)
(*   app/api/vision.py             analyze_cat_endpoint                    *)
(*                                                                         *)
(* Units.  A detector confidence c is held as the integer 1000*c           *)
(* (thousandths); a confidence rounded to 2 decimals is held as 100*c      *)
(* (hundredths).  Box corner coordinates are held in tenths of a pixel,    *)
(* so that int() is a real truncation.  Python dicts are records with a    *)
(* "keys" field naming the keys that are present.                          *)
(***************************************************************************)
EXTENDS Integers, Sequences, FiniteSets, TLC

\* ---------------------------------------------------------------- bounds
\* Number of callers that may be inside the pipeline at the same time.
NumCallers == 2
\* Longest list of boxes the detection model returns for one image.
MaxBoxes == 2

Callers == 1..NumCallers

\* ------------------------------------------------------ program constants
\* CatDetector.cat_class_id: COCO class 15 is "cat".
cat_class_id == 15
\* Quality thresholds of check_image_quality.
MIN_SIDE_PX == 100
MIN_SHARPNESS == 50
MIN_BRIGHTNESS == 30
MAX_BRIGHTNESS == 225

\* ------------------------------------------------------------ conversions
\* int(v) for a non-negative float v held in tenths: truncation.
IntOfTenths(v) == v \div 10

\* round(conf, 2) for a confidence held in thousandths, result in
\* hundredths.  Thousandth values ending in 5 are never drawn as inputs:
\* their float rounding depends on the binary representation of the value.
Round2(m) == IF m % 10 < 5 THEN m \div 10 ELSE (m \div 10) + 1

\* ------------------------------------------------------------ quality gate
NoQuality ==
    [present |-> FALSE, is_valid |-> FALSE, reason |-> "None",
     sharpness |-> 0, brightness |-> 0]

\* CatDetector.check_image_quality: resolution, then sharpness, then
\* brightness; the first failing check decides the reason.
check_image_quality_swapped(image) ==
    IF image.width < MIN_SIDE_PX \/ image.height < MIN_SIDE_PX
    THEN [present |-> TRUE, is_valid |-> FALSE, reason |-> "image too small",
          sharpness |-> image.sharpness, brightness |-> image.brightness]
    ELSE IF image.brightness < MIN_BRIGHTNESS \/ image.brightness > MAX_BRIGHTNESS
    THEN [present |-> TRUE, is_valid |-> FALSE, reason |-> "unsuitable brightness",
          sharpness |-> image.sharpness, brightness |-> image.brightness]
    ELSE IF image.sharpness < MIN_SHARPNESS
    THEN [present |-> TRUE, is_valid |-> FALSE, reason |-> "image too blurry",
          sharpness |-> image.sharpness, brightness |-> image.brightness]
    ELSE [present |-> TRUE, is_valid |-> TRUE, reason |-> "None",
          sharpness |-> image.sharpness, brightness |-> image.brightness]

check_image_quality(image) ==
    IF image.width < MIN_SIDE_PX \/ image.height < MIN_SIDE_PX
    THEN [present |-> TRUE, is_valid |-> FALSE, reason |-> "image too small",
          sharpness |-> image.sharpness, brightness |-> image.brightness]
    ELSE IF image.sharpness < MIN_SHARPNESS
    THEN [present |-> TRUE, is_valid |-> FALSE, reason |-> "image too blurry",
          sharpness |-> image.sharpness, brightness |-> image.brightness]
    ELSE IF image.brightness < MIN_BRIGHTNESS \/ image.brightness > MAX_BRIGHTNESS
    THEN [present |-> TRUE, is_valid |-> FALSE, reason |-> "unsuitable brightness",
          sharpness |-> image.sharpness, brightness |-> image.brightness]
    ELSE [present |-> TRUE, is_valid |-> TRUE, reason |-> "None",
          sharpness |-> image.sharpness, brightness |-> image.brightness]

\* detect_cat line 30: "if not quality['is_valid']".
QualityRejected_never(quality) == FALSE

QualityRejected(quality) == ~quality.is_valid

\* ------------------------------------------------------- detection results
NoBbox == [kind |-> "none", x |-> 0, y |-> 0, w |-> 0, h |-> 0]

NoResult ==
    [keys |-> {}, is_cat |-> FALSE, confidence |-> 0, bounding_box |-> NoBbox,
     quality_check |-> NoQuality, total_cats_detected |-> 0,
     error |-> [msg |-> "None", detail |-> "None"]]

\* detect_cat lines 23-27: cv2.imread returned None.
DecodeFailedResult ==
    [NoResult EXCEPT !.keys = {"is_cat", "confidence", "error"},
                     !.error = [msg |-> "cannot load image", detail |-> "None"]]

\* detect_cat lines 31-36: the quality gate rejected the image.
QualityRejectedResult(quality) ==
    [NoResult EXCEPT !.keys = {"is_cat", "confidence", "quality_check", "error"},
                     !.quality_check = quality,
                     !.error = [msg |-> "quality rejected", detail |-> quality.reason]]

\* detect_cat lines 76-81: any exception raised inside the try block.
ExceptionResult(exc) ==
    [NoResult EXCEPT !.keys = {"is_cat", "confidence", "error"},
                     !.error = [msg |-> "exception", detail |-> exc]]

\* detect_cat lines 58-63: no box of the cat class.
NoCatResult(quality) ==
    [NoResult EXCEPT !.keys = {"is_cat", "confidence", "quality_check", "error"},
                     !.quality_check = quality,
                     !.error = [msg |-> "no cat found", detail |-> "None"]]

\* detect_cat lines 45-55: one retained detection, bbox as an x/y/w/h dict.
Detection(box) ==
    [confidence |-> box.conf,
     bbox |-> [kind |-> "dict",
               x |-> IntOfTenths(box.xyxy[1]),
               y |-> IntOfTenths(box.xyxy[2]),
               w |-> IntOfTenths(box.xyxy[3] - box.xyxy[1]),
               h |-> IntOfTenths(box.xyxy[4] - box.xyxy[2])]]

\* detect_cat lines 41-42: boxes of every result, in order.
RECURSIVE AllBoxes(_)
AllBoxes(results) ==
    IF results = <<>> THEN <<>>
    ELSE Head(results) \o AllBoxes(Tail(results))

\* detect_cat lines 40-55: keep the boxes whose class is the cat class.
RECURSIVE KeepAll(_)
KeepAll(boxes) ==
    IF boxes = <<>> THEN <<>>
    ELSE <<Detection(Head(boxes))>> \o KeepAll(Tail(boxes))

RECURSIVE CatDetections(_)
CatDetections(boxes) ==
    IF boxes = <<>> THEN <<>>
    ELSE IF Head(boxes).cls = cat_class_id
         THEN <<Detection(Head(boxes))>> \o CatDetections(Tail(boxes))
         ELSE CatDetections(Tail(boxes))

\* max(cat_detections, key=confidence): scan left to right and replace the
\* current best only by a strictly greater key, so the first maximum wins.
RECURSIVE MaxFrom(_, _)
MaxFrom(best, rest) ==
    IF rest = <<>> THEN best
    ELSE IF Head(rest).confidence > best.confidence
         THEN MaxFrom(Head(rest), Tail(rest))
         ELSE MaxFrom(best, Tail(rest))

\* The same scan with the keys rounded to 2 decimals before comparison.
RECURSIVE MaxFromRounded(_, _)
MaxFromRounded(best, rest) ==
    IF rest = <<>> THEN best
    ELSE IF Round2(Head(rest).confidence) > Round2(best.confidence)
         THEN MaxFromRounded(Head(rest), Tail(rest))
         ELSE MaxFromRounded(best, Tail(rest))

BestCat_rounded(cat_detections) ==
    MaxFromRounded(Head(cat_detections), Tail(cat_detections))

\* detect_cat line 65.
BestCat(cat_detections) == MaxFrom(Head(cat_detections), Tail(cat_detections))

\* detect_cat lines 67-74, without the bounding box.
CatFoundResult_nobox(quality, cat_detections) ==
    [NoResult EXCEPT !.keys = {"is_cat", "confidence", "quality_check",
                               "total_cats_detected", "error"},
                     !.is_cat = TRUE,
                     !.confidence = Round2(BestCat(cat_detections).confidence),
                     !.quality_check = quality,
                     !.total_cats_detected = Len(cat_detections)]

\* detect_cat lines 67-74.
CatFoundResult(quality, cat_detections) ==
    [NoResult EXCEPT !.keys = {"is_cat", "confidence", "bounding_box",
                               "quality_check", "total_cats_detected", "error"},
                     !.is_cat = TRUE,
                     !.confidence = Round2(BestCat(cat_detections).confidence),
                     !.bounding_box = BestCat(cat_detections).bbox,
                     !.quality_check = quality,
                     !.total_cats_detected = Len(cat_detections)]

\* detect_cat lines 40-74: what the method returns once the model returned.
DetectFromResults(quality, results) ==
    LET cat_detections == CatDetections(AllBoxes(results))
    IN  IF cat_detections = <<>>
        THEN NoCatResult(quality)
        ELSE CatFoundResult(quality, cat_detections)

\* ------------------------------------------------------- analysis_cat.py
\* Units.  Centimetres and kilograms are held in tenths (1 decimal), the
\* measurement confidence and the posture and breed factors in hundredths.
\* Float expressions are evaluated exactly, as ratios of integers, and
\* rounded once where the code calls round().  pi is taken as 355/113.
\* Inputs whose exact value lies half-way between two roundings are not
\* drawn (TieFree below): what a float rounds to there depends on its
\* binary representation.  On the inputs drawn, no rounding boundary lies
\* between the value computed with 355/113 and the one computed with pi.

\* bounds
\* Largest side, in pixels, of the boxes of the full grid.
MaxSide == 24

\* program constants
REAL_TORSO_HEIGHT_CM == 25
PI_NUM == 355
PI_DEN == 113
\* 300 * 300, the box area at which size_ratio saturates (line 62).
FULL_AREA == 90000
\* 3000, the divisor of estimate_weight (line 87), times 10^4 for the units.
WEIGHT_DIVISOR == 30000000

Max(a, b) == IF a >= b THEN a ELSE b
Min(a, b) == IF a <= b THEN a ELSE b

\* The value num/den lies exactly half-way between two integers.
IsTie(num, den) == 2 * (num % den) = den

\* round() of the exact value num/den (num >= 0, den > 0) to an integer:
\* to the nearest, and to the even neighbour on an exact tie.
RoundHalfEven(num, den) ==
    LET q == num \div den
        r == num % den
    IN  IF 2 * r < den THEN q
        ELSE IF 2 * r > den THEN q + 1
        ELSE IF q % 2 = 0 THEN q ELSE q + 1

\* <<quotient, remainder>> of a * b by c, for a, b >= 0 and c > 0, without
\* forming the product: b is taken bit by bit.
RECURSIVE MulDivMod(_, _, _)
MulDivMod(a, b, c) ==
    IF b = 0 THEN <<0, 0>>
    ELSE LET half == MulDivMod(a, b \div 2, c)
             q2 == (2 * half[1]) + ((2 * half[2]) \div c)
             r2 == (2 * half[2]) % c
         IN  IF b % 2 = 0 THEN <<q2, r2>>
             ELSE <<q2 + (a \div c) + ((r2 + (a % c)) \div c), (r2 + (a % c)) % c>>

\* round() of the exact value a * b / c to an integer.
RoundProduct(a, b, c) ==
    LET qr == MulDivMod(a, b, c)
    IN  IF 2 * qr[2] < c THEN qr[1]
        ELSE IF 2 * qr[2] > c THEN qr[1] + 1
        ELSE IF qr[1] % 2 = 0 THEN qr[1] ELSE qr[1] + 1

\* BREED_MODIFIER (lines 9-15), in hundredths.
BREED_MODIFIER ==
    [maine_coon |-> 115, ragdoll |-> 110, british_shorthair |-> 105,
     siamese |-> 95, unknown |-> 100]

\* BREED_MODIFIER.get(breed, 1.0), with a default of 0 instead of 1.0.
BreedModifierGet_zero(breed) ==
    IF breed \in DOMAIN BREED_MODIFIER THEN BREED_MODIFIER[breed] ELSE 0

\* BREED_MODIFIER.get(breed, 1.0) (line 88).
BreedModifierGet(breed) ==
    IF breed \in DOMAIN BREED_MODIFIER THEN BREED_MODIFIER[breed] ELSE 100

\* estimate_posture with the comparisons made inclusive.
estimate_posture_inclusive(w, h) ==
    IF 10 * w >= 14 * Max(h, 1) THEN [posture |-> "lying", factor |-> 85]
    ELSE IF 10 * w <= 9 * Max(h, 1) THEN [posture |-> "sitting", factor |-> 92]
    ELSE [posture |-> "standing", factor |-> 100]

\* estimate_posture (lines 21-29): ratio = w / max(h, 1) against 1.4 and
\* 0.9.  For integer w and h the float quotient compares with the float
\* constants as the exact ratio does with 14/10 and 9/10.
estimate_posture(w, h) ==
    IF 10 * w > 14 * Max(h, 1) THEN [posture |-> "lying", factor |-> 85]
    ELSE IF 10 * w < 9 * Max(h, 1) THEN [posture |-> "sitting", factor |-> 92]
    ELSE [posture |-> "standing", factor |-> 100]

\* The torso_ratio table with the sitting and standing entries exchanged.
TorsoRatio_swapped(posture) ==
    IF posture = "lying" THEN 55 ELSE IF posture = "sitting" THEN 65 ELSE 60

\* torso_ratio (lines 43-47), in hundredths.
TorsoRatio(posture) ==
    IF posture = "lying" THEN 55 ELSE IF posture = "sitting" THEN 60 ELSE 65

\* pixel_to_cm (lines 49-50) as the ratio <<numerator, denominator>>:
\* 25 / max(h * torso_ratio, 1), both terms in hundredths.
PixelToCm(h, posture) ==
    <<REAL_TORSO_HEIGHT_CM * 100, Max(h * TorsoRatio(posture), 100)>>

\* The exact body length in tenths of a cm, as <<numerator, denominator>>:
\* w * pixel_to_cm * (1.0 if lying else 0.9).
BodyLengthExact(w, pixel_to_cm, posture) ==
    <<w * pixel_to_cm[1] * (IF posture = "lying" THEN 10 ELSE 9), pixel_to_cm[2]>>

\* The body length with pixel_to_cm divided by w instead of multiplied.
BodyLengthCm_inverse(w, pixel_to_cm, posture) ==
    RoundHalfEven(pixel_to_cm[1] * (IF posture = "lying" THEN 10 ELSE 9),
                  w * pixel_to_cm[2])

\* body_length_cm (lines 52-55), in tenths.
BodyLengthCm(w, pixel_to_cm, posture) ==
    RoundHalfEven(BodyLengthExact(w, pixel_to_cm, posture)[1],
                  BodyLengthExact(w, pixel_to_cm, posture)[2])

\* The exact chest in tenths of a cm, as <<numerator, denominator>>:
\* pi * (w * pixel_to_cm) * 0.6 * posture_factor; the factor is in
\* hundredths, so 0.6 * 10 / 100 leaves 6 / 100.
ChestExact(w, pixel_to_cm, posture_factor) ==
    <<PI_NUM * (w * (pixel_to_cm[1] \div 100) * 6 * posture_factor),
      PI_DEN * pixel_to_cm[2]>>

\* chest_cm (lines 57-58), in tenths.
ChestCm(w, pixel_to_cm, posture_factor) ==
    RoundHalfEven(ChestExact(w, pixel_to_cm, posture_factor)[1],
                  ChestExact(w, pixel_to_cm, posture_factor)[2])

\* neck_cm (line 59), in tenths: round(chest_cm * 0.62, 1) of the rounded chest.
NeckCm(chest_cm) == RoundHalfEven(chest_cm * 62, 100)

\* aspect_score with the bounds 0.6 and 1.8 included.
AspectScore_inclusive(w, h) == IF 6 * h <= 10 * w /\ 10 * w <= 18 * h THEN 10 ELSE 6

\* aspect_score (line 63), in tenths: 1.0 if 0.6 < w / h < 1.8 else 0.6.
AspectScore(w, h) == IF 6 * h < 10 * w /\ 10 * w < 18 * h THEN 10 ELSE 6

\* The exact confidence in hundredths, as <<numerator, denominator>>:
\* min(1.0, w * h / 90000) * 0.6 + aspect_score * 0.4 (lines 62-64).
ConfidenceExact(w, h) ==
    <<Min(w * h, FULL_AREA) * 60 + AspectScore(w, h) * 4 * FULL_AREA, FULL_AREA>>

\* confidence (line 64), in hundredths.
MeasurementConfidence(w, h) ==
    RoundHalfEven(ConfidenceExact(w, h)[1], ConfidenceExact(w, h)[2])

\* quality_flag with the bounds 0.75 and 0.5 included.
QualityFlag_inclusive(confidence) ==
    IF confidence >= 75 THEN "good"
    ELSE IF confidence >= 50 THEN "medium"
    ELSE "poor"

\* quality_flag (lines 66-70) of the rounded confidence.
QualityFlag(confidence) ==
    IF confidence > 75 THEN "good"
    ELSE IF confidence > 50 THEN "medium"
    ELSE "poor"

NoMetrics ==
    [posture |-> "None", chest_cm |-> 0, neck_cm |-> 0, body_length_cm |-> 0,
     confidence |-> 0, quality_flag |-> "None"]

\* A bounding box given as the list [x1, y1, x2, y2]: the four elements
\* are kept, in order, in the slots x, y, w, h.
ListBbox(x1, y1, x2, y2) == [kind |-> "list", x |-> x1, y |-> y1, w |-> x2, h |-> y2]

\* Width of a box (lines 37-38), at least 1.
BoxWidth(bbox) == Max(bbox.w - bbox.x, 1)

\* The height of a box without the clamp of line 39.
BoxHeight_unclamped(bbox) == bbox.h - bbox.y

\* Height of a box (lines 37, 39), at least 1.
BoxHeight(bbox) == Max(bbox.h - bbox.y, 1)

NoLocals ==
    [w |-> 0, h |-> 0, ratio_divisor |-> 0, pixel_divisor |-> 0,
     aspect_divisor |-> 0]

\* The locals of estimate_body_metrics and the three values it divides by:
\* max(h, 1) in estimate_posture (line 22), max(effective_height, 1) in
\* hundredths (line 50) and h (line 63).
BodyMetricsLocals(bbox) ==
    LET w == BoxWidth(bbox)
        h == BoxHeight(bbox)
    IN  [w |-> w, h |-> h,
         ratio_divisor |-> Max(h, 1),
         pixel_divisor |-> PixelToCm(h, estimate_posture(w, h).posture)[2],
         aspect_divisor |-> h]

\* estimate_body_metrics (lines 36-79) of a list [x1, y1, x2, y2].
estimate_body_metrics(bbox) ==
    LET w == BoxWidth(bbox)
        h == BoxHeight(bbox)
        p == estimate_posture(w, h)
        pixel_to_cm == PixelToCm(h, p.posture)
        chest_cm == ChestCm(w, pixel_to_cm, p.factor)
        confidence == MeasurementConfidence(w, h)
    IN  [posture |-> p.posture,
         chest_cm |-> chest_cm,
         neck_cm |-> NeckCm(chest_cm),
         body_length_cm |-> BodyLengthCm(w, pixel_to_cm, p.posture),
         confidence |-> confidence,
         quality_flag |-> QualityFlag(confidence)]

\* The exact weight in tenths of a kg is a * b / WEIGHT_DIVISOR with
\* a = chest_cm^2 and b = body_length_cm * modifier.
WeightIsTie(chest_cm, body_length_cm, breed) ==
    LET qr == MulDivMod(chest_cm * chest_cm,
                        body_length_cm * BreedModifierGet(breed), WEIGHT_DIVISOR)
    IN  2 * qr[2] = WEIGHT_DIVISOR

\* estimate_weight (lines 86-88), in tenths of a kg:
\* round((chest_cm ** 2 * body_length_cm) / 3000 * modifier, 1).
estimate_weight(chest_cm, body_length_cm, breed) ==
    RoundProduct(chest_cm * chest_cm, body_length_cm * BreedModifierGet(breed),
                 WEIGHT_DIVISOR)

\* determine_size deciding on the weight alone.
determine_size_weight(weight, chest_cm) ==
    IF weight < 25 THEN "XS"
    ELSE IF weight < 40 THEN "S"
    ELSE IF weight < 60 THEN "M"
    ELSE IF weight < 85 THEN "L"
    ELSE "XL"

\* determine_size with AND between the two conditions of a band.
determine_size_and(weight, chest_cm) ==
    IF weight < 25 /\ chest_cm < 240 THEN "XS"
    ELSE IF weight < 40 /\ chest_cm < 320 THEN "S"
    ELSE IF weight < 60 /\ chest_cm < 380 THEN "M"
    ELSE IF weight < 85 /\ chest_cm < 450 THEN "L"
    ELSE "XL"

\* determine_size (lines 95-104); weight and chest in tenths.
determine_size(weight, chest_cm) ==
    IF weight < 25 \/ chest_cm < 240 THEN "XS"
    ELSE IF weight < 40 \/ chest_cm < 320 THEN "S"
    ELSE IF weight < 60 \/ chest_cm < 380 THEN "M"
    ELSE IF weight < 85 \/ chest_cm < 450 THEN "L"
    ELSE "XL"

NoAnalysis ==
    [keys |-> {}, breed |-> "None", cat_color |-> "None", weight |-> 0,
     size_category |-> "None", metrics |-> NoMetrics,
     analysis_method |-> "None"]

\* The dict analyze_cat returns (lines 119-143); the measurements are the
\* flat keys chest_cm, neck_cm, body_length_cm, posture, confidence and
\* quality_flag, held together in "metrics".
AnalysisResult(bounding_box, cat_color) ==
    LET breed == "unknown"
        metrics == estimate_body_metrics(bounding_box)
        weight == estimate_weight(metrics.chest_cm, metrics.body_length_cm, breed)
    IN  [keys |-> {"breed", "cat_color", "weight", "size_category", "chest_cm",
                   "neck_cm", "body_length_cm", "posture", "confidence",
                   "quality_flag", "analysis_method"},
         breed |-> breed,
         cat_color |-> cat_color,
         weight |-> weight,
         size_category |-> determine_size(weight, metrics.chest_cm),
         metrics |-> metrics,
         analysis_method |-> "cv_heuristic_v4"]

\* ------------------------------------------------------------- analyze_cat
\* Parameters of analyze_cat(image_path, bounding_box, cat_color=None).
analyze_cat_params == {"image_path", "bounding_box", "cat_color"}

\* Keyword arguments analyze_cat_endpoint passes (vision.py lines 152-159).
endpoint_kwargs ==
    {"image_path", "bounding_box", "firebase_uid", "cat_color", "breed",
     "age_category"}

Stages == {"posture", "body_metrics", "weight", "size"}

\* estimate_body_metrics line 37 unpacks four values from bbox and lines
\* 38-39 subtract them.  Unpacking a dict yields its keys, and subtracting
\* two str keys raises TypeError before any stage has run; a 4-element list
\* of numbers goes through all stages.
analyze_cat(bounding_box, cat_color) ==
    IF bounding_box.kind = "list"
    THEN [raised |-> FALSE, exc |-> "None", stages |-> Stages,
          result |-> AnalysisResult(bounding_box, cat_color)]
    ELSE [raised |-> TRUE, exc |-> "TypeError", stages |-> {},
          result |-> NoAnalysis]

\* Python binds the call's keyword arguments to the parameters before the
\* body runs; a keyword that names no parameter raises TypeError.
AnalyzeCatCall(kwargs, bounding_box, cat_color) ==
    IF kwargs \subseteq analyze_cat_params
    THEN analyze_cat(bounding_box, cat_color)
    ELSE [raised |-> TRUE, exc |-> "TypeError", stages |-> {},
          result |-> NoAnalysis]

\* The measurement fields of the endpoint's response; "nulls" names the
\* fields that are None.
NoFormatted ==
    [name |-> "None", breed |-> "None", weight |-> 0, size_category |-> "None",
     chest_cm |-> 0, neck_cm |-> 0, body_length_cm |-> 0, nulls |-> {}]

\* analysis_result.get('measurements', {}) (vision.py line 172).
Measurements(analysis_result) ==
    IF "measurements" \in analysis_result.keys
    THEN [keys |-> {"chest_cm", "neck_cm", "body_length_cm"},
          chest_cm |-> analysis_result.metrics.chest_cm,
          neck_cm |-> analysis_result.metrics.neck_cm,
          body_length_cm |-> analysis_result.metrics.body_length_cm]
    ELSE [keys |-> {}, chest_cm |-> 0, neck_cm |-> 0, body_length_cm |-> 0]

\* vision.py lines 172-190: the measurement fields of the response, read
\* with dict.get from the dict analyze_cat returned.
FormatMeasurements(analysis_result) ==
    LET measurements == Measurements(analysis_result)
        has(key) == key \in analysis_result.keys
        neck == IF "neck_cm" \in measurements.keys THEN measurements.neck_cm ELSE 0
        body == IF "body_length_cm" \in measurements.keys
                THEN measurements.body_length_cm ELSE 0
    IN  [name |-> IF has("cat_color") THEN analysis_result.cat_color ELSE "Unknown",
         breed |-> IF has("breed") THEN analysis_result.breed ELSE "None",
         weight |-> IF has("weight_kg") THEN analysis_result.weight ELSE 0,
         size_category |-> IF has("size_category")
                           THEN analysis_result.size_category ELSE "Unknown",
         chest_cm |-> IF "chest_cm" \in measurements.keys
                      THEN measurements.chest_cm ELSE 0,
         neck_cm |-> neck,
         body_length_cm |-> body,
         nulls |-> (IF neck = 0 THEN {"neck_cm"} ELSE {})
                   \cup (IF body = 0 THEN {"body_length_cm"} ELSE {})]

\* ------------------------------------------------------------------ inputs
GoodStats == [width |-> 640, height |-> 480, sharpness |-> 120, brightness |-> 128]

Image(decodable, stats, results, model_raises) ==
    [decodable |-> decodable, width |-> stats.width, height |-> stats.height,
     sharpness |-> stats.sharpness, brightness |-> stats.brightness,
     results |-> results, model_raises |-> model_raises]

\* Confidences in thousandths: 0.871 and 0.874 both round to 0.87, 0.876 to 0.88.
Confs == {871, 874, 876}
\* Other COCO classes the model reports: 16 is "dog".
Classes == {cat_class_id, 16}
\* Corner coordinates (x1, y1, x2, y2) in tenths of a pixel.
XYXYs == {<<1004, 1508, 4009, 3507>>, <<205, 309, 3311, 5012>>}

Boxes == [cls : Classes, conf : Confs, xyxy : XYXYs]

BoxLists == UNION {[1..n -> Boxes] : n \in 0..MaxBoxes}

StatsSet ==
    [width : {99, 100}, height : {99, 100}, sharpness : {49, 50},
     brightness : {29, 30, 225, 226}]

CatBox == [cls |-> cat_class_id, conf |-> 874, xyxy |-> <<1004, 1508, 4009, 3507>>]
DogBox == [cls |-> 16, conf |-> 876, xyxy |-> <<205, 309, 3311, 5012>>]

\* Images for the runs with overlapping callers: one per return path.
SmallImages ==
    { Image(FALSE, GoodStats, <<>>, FALSE),
      Image(TRUE, [GoodStats EXCEPT !.width = 99], <<<<CatBox>>>>, FALSE),
      Image(TRUE, GoodStats, <<<<DogBox>>>>, FALSE),
      Image(TRUE, GoodStats, <<<<DogBox, CatBox>>>>, FALSE),
      Image(TRUE, GoodStats, <<<<CatBox>>>>, TRUE) }

\* Images for the runs with one caller: every quality boundary, and every
\* list of boxes up to MaxBoxes.
WideImages ==
    { Image(d, GoodStats, <<<<CatBox>>>>, r) : d \in BOOLEAN, r \in BOOLEAN }
    \cup { Image(TRUE, s, <<<<CatBox>>>>, FALSE) : s \in StatsSet }
    \cup { Image(TRUE, GoodStats, <<bl>>, FALSE) : bl \in BoxLists }

\* The dict verify_firebase_token returns (dependencies.py lines 152-157)
\* has the key "firebase_uid"; a dict with the key "uid" is what
\* analyze_cat_endpoint reads (vision.py line 80).
Users ==
    { [keys |-> {"firebase_uid", "email", "name", "picture"}, uid |-> "None",
       firebase_uid |-> "u1"],
      [keys |-> {"uid"}, uid |-> "u1", firebase_uid |-> "None"] }

\* dict.get(key) for the user dict.
UserGet(user, key) ==
    IF key \in user.keys
    THEN (IF key = "uid" THEN user.uid ELSE user.firebase_uid)
    ELSE "None"

NoUser == [keys |-> {}, uid |-> "None", firebase_uid |-> "None"]

NoRequest ==
    [entry |-> "none", user |-> NoUser, download_ok |-> FALSE,
     image |-> Image(FALSE, GoodStats, <<>>, FALSE)]

NoResponse ==
    [status |-> 0, is_cat |-> FALSE, confidence |-> 0, message |-> "None",
     bounding_box |-> NoBbox, measurements |-> NoFormatted]

HTTPException(status_code, detail) ==
    [NoResponse EXCEPT !.status = status_code, !.message = detail]

\* ------------------------------------------------------ auth/dependencies.py
\* What auth.verify_id_token(token, check_revoked=False) does: it returns
\* ("ok") or raises with one of these messages.
VerifyErrors ==
    { "Token expired, 1700003600 < 1700007200",
      "Token used too early, 1700000000 < 1699990000",
      "Could not verify token signature.",
      "Firebase ID token has incorrect iss (issuer) claim. Expected securetoken.google.com/project but got expired." }

\* str(e).lower() contains "too early" or "expired" (line 137).
MentionsTime(error) ==
    error \in { "Token expired, 1700003600 < 1700007200",
                "Token used too early, 1700000000 < 1699990000",
                "Firebase ID token has incorrect iss (issuer) claim. Expected securetoken.google.com/project but got expired." }

Uids == {"u1", "u2"}

\* The bearer tokens presented.  "signature_ok" tells whether the
\* signature check of verify_id_token succeeded; verify_id_token returns
\* only then, and the errors about the time are raised after it.
Tokens ==
    { t \in [credentials : BOOLEAN, decodable : BOOLEAN,
             uid : {"None", "u1"}, user_id : {"None", "u2"}, sub : {"None", "u1"},
             aud : {"project", "other"}, signature_ok : BOOLEAN,
             verify : {"ok"} \cup VerifyErrors] :
        /\ t.verify = "ok" => t.signature_ok
        /\ t.signature_ok => t.verify \in
               {"ok", "Token expired, 1700003600 < 1700007200",
                "Token used too early, 1700000000 < 1699990000"}
        /\ ~t.signature_ok => t.verify \in
               {"Could not verify token signature.",
                "Firebase ID token has incorrect iss (issuer) claim. Expected securetoken.google.com/project but got expired."} }

\* The dict verify_firebase_token returns (lines 152-157).
UserDict(uid) ==
    [keys |-> {"firebase_uid", "email", "name", "picture"}, uid |-> "None",
     firebase_uid |-> uid]

NoAuthCall ==
    [fn |-> "none", enabled |-> FALSE,
     token |-> [credentials |-> FALSE, decodable |-> FALSE, uid |-> "None",
                user_id |-> "None", sub |-> "None", aud |-> "other",
                signature_ok |-> FALSE,
                verify |-> "Could not verify token signature."]]

NoAuthRet == [status |-> 0, detail |-> "None", user |-> NoUser]

AuthReject(status_code, detail) ==
    [status |-> status_code, detail |-> detail, user |-> NoUser]

\* uid or user_id or sub of the unverified claims (lines 96-100).
ClaimedUid(token) ==
    IF token.uid # "None" THEN token.uid
    ELSE IF token.user_id # "None" THEN token.user_id
    ELSE token.sub

\* verify_firebase_token (lines 60-169); status 200 stands for a returned
\* user dict.
verify_firebase_token(FIREBASE_ENABLED, token) ==
    IF ~FIREBASE_ENABLED
    THEN AuthReject(503, "Firebase authentication is disabled")
    ELSE IF ~token.credentials
    THEN AuthReject(401, "Authorization header missing")
    ELSE IF ~token.decodable
    THEN AuthReject(401, "Authentication failed")
    ELSE IF ClaimedUid(token) = "None"
    THEN AuthReject(401, "Token missing user ID")
    ELSE IF token.aud # "project"
    THEN AuthReject(401, "Invalid token audience")
    ELSE IF token.verify = "ok" \/ MentionsTime(token.verify)
    THEN [status |-> 200, detail |-> "None", user |-> UserDict(ClaimedUid(token))]
    ELSE AuthReject(401, "Invalid token signature")

\* The user dicts verify_firebase_token returns for the tokens it accepts.
AcceptedUsers ==
    { verify_firebase_token(TRUE, t).user :
          t \in {t \in Tokens : verify_firebase_token(TRUE, t).status = 200} }

\* ------------------------------------------------------ api/cat_crud_api.py
\* Units.  A weight is held in tenths of a kg and 0 stands for None; a
\* timestamp is "None" or "now".  The rows carry the fields of CatResponse
\* the handlers read or write here.

\* bounds
\* Size of the cats table: ids run from 1 to MaxCats.
MaxCats == 2

CatIds == 1..MaxCats

Names == {"Orange_Cat", "Fluffy"}
Weights == {35, 42}

NoRow ==
    [id |-> 0, firebase_uid |-> "None", name |-> "None", weight |-> 0,
     updated_at |-> "None"]

\* The request bodies of create_cat (CatCreate).
CatCreates == [name : Names, weight : Weights]

\* The request bodies of update_cat (CatUpdate): "set" names the fields
\* the body holds; the others keep their default None.
CatUpdates ==
    { u \in [set : SUBSET {"name", "weight"}, name : Names \cup {"None"},
             weight : Weights \cup {0}] :
        /\ ("name" \in u.set) <=> (u.name # "None")
        /\ ("weight" \in u.set) <=> (u.weight # 0) }

\* payload.model_dump() without exclude_unset: every field of CatUpdate.
UpdateData_all(payload) == {"name", "weight"}

\* payload.model_dump(exclude_unset=True) (line 211): the keys of the
\* fields the body holds.
UpdateData(payload) == payload.set

\* The rows of a table.
Rows(table) == {table[i] : i \in {j \in DOMAIN table : table[j] # NoRow}}

\* db.query(Cat).filter(Cat.id == cat_id).first(), without the filter on
\* the owner.
FirstOwned_any(table, cat_id, firebase_uid) ==
    IF cat_id \in DOMAIN table THEN table[cat_id] ELSE NoRow

\* db.query(Cat).filter(Cat.id == cat_id).filter(Cat.firebase_uid ==
\* firebase_uid).first() (lines 158-161, 198-201, 255-258); NoRow is None.
FirstOwned(table, cat_id, firebase_uid) ==
    IF /\ cat_id \in DOMAIN table
       /\ table[cat_id] # NoRow
       /\ table[cat_id].firebase_uid = firebase_uid
    THEN table[cat_id]
    ELSE NoRow

\* db.query(Cat).filter(Cat.firebase_uid == firebase_uid) (lines 111-112, 314).
QueryOwned(table, firebase_uid) ==
    {row \in Rows(table) : row.firebase_uid = firebase_uid}

\* order_by(Cat.detected_at.desc()).offset(skip).limit(limit).all(): the
\* rows were detected in the order of their ids.
Page(rows, skip, limit) ==
    {row \in rows :
        LET newer == Cardinality({other \in rows : other.id > row.id})
        IN  skip <= newer /\ newer < skip + limit}

\* The loop of lines 213-216 on the row: setattr for every key of
\* update_data, then updated_at.
ApplyUpdate(cat, payload) ==
    [cat EXCEPT !.name = IF "name" \in UpdateData(payload) THEN payload.name ELSE @,
                !.weight = IF "weight" \in UpdateData(payload) THEN payload.weight ELSE @,
                !.updated_at = "now"]

\* The user dicts the handlers are called with: with the key "uid" the
\* handlers read, and as verify_firebase_token returns them.
CrudUsers ==
    { [keys |-> {"uid"}, uid |-> u, firebase_uid |-> "None"] : u \in Uids }
    \cup {UserDict("u1")}

NoCrud ==
    [fn |-> "none", user |-> NoUser, is_admin |-> FALSE, cat_id |-> 0,
     body |-> [name |-> "None", weight |-> 0],
     payload |-> [set |-> {}, name |-> "None", weight |-> 0],
     commit_ok |-> FALSE, skip |-> 0, limit |-> 0, min_weight |-> 0,
     max_weight |-> 0]

NoCrudResp == [status |-> 0, detail |-> "None", rows |-> {}]

CrudException(status_code, detail) ==
    [status |-> status_code, detail |-> detail, rows |-> {}]

success_response(status_code, rows) ==
    [status |-> status_code, detail |-> "None", rows |-> rows]

\* ------------------------------------------------------------- db/database.py
\* bounds
\* Coroutines that call create_db_pool, get_db_pool or close_db_pool.
NumCoroutines == 2
\* Pools asyncpg.create_pool is asked for during a run.
MaxPools == 3

Coroutines == 1..NumCoroutines

\* --------------------------------------------------------------- variables
VARIABLES
    detector_instance,  \* module global _detector_instance: 0 is None, else the id of a CatDetector
    loads,              \* how many times CatDetector.__init__ loaded the YOLO model
    pc,                 \* where each caller is
    req,                \* each caller's current call: entry point and inputs
    detector,           \* local "detector" of detect_cat(image_path)
    invoked,            \* whether self.model(...) was called during the current call
    inferring,          \* the callers that are inside self.model(...), with the instance used
    detect_result,      \* the dict CatDetector.detect_cat returned
    stages,             \* analysis stages that ran for the current call
    temp_files,         \* the callers whose temporary image file exists
    response,           \* what analyze_cat_endpoint answered
    a_call,             \* the function of analysis_cat.py that was called last, with its arguments
    a_ret,              \* what that call returned
    auth_call,          \* the call of verify_firebase_token in progress: FIREBASE_ENABLED and the token
    auth_ret,           \* what verify_firebase_token answered
    cats,               \* the cats table: id -> row, NoRow where there is none
    next_id,            \* the next value of the id sequence
    crud,               \* the handler of cat_crud_api.py called last, with its arguments
    crud_resp,          \* what that handler answered
    cats_before,        \* the cats table when that handler was called
    pool,               \* module global _pool: 0 is None, else the id of an asyncpg pool
    pools_made,         \* how many pools asyncpg.create_pool has created
    pools_open,         \* the pools created and not closed
    co_pc,              \* where each coroutine is
    co_pool             \* the pool a coroutine was given, or is closing

pipeline_vars ==
    <<detector_instance, loads, pc, req, detector, invoked, inferring,
      detect_result, stages, temp_files, response>>

analysis_vars == <<a_call, a_ret>>

auth_vars == <<auth_call, auth_ret>>

crud_vars == <<cats, next_id, crud, crud_resp, cats_before>>

pool_vars == <<pool, pools_made, pools_open, co_pc, co_pool>>

service_vars == <<auth_vars, crud_vars, pool_vars>>

vars == <<pipeline_vars, analysis_vars, service_vars>>

NoCall ==
    [fn |-> "none", bbox |-> NoBbox, w |-> 0, h |-> 0, chest_cm |-> 0,
     body_length_cm |-> 0, weight |-> 0, breed |-> "None", cat_color |-> "None"]

NoRet ==
    [posture |-> [posture |-> "None", factor |-> 0], metrics |-> NoMetrics,
     weight |-> 0, size |-> "None", analysis |-> NoAnalysis,
     formatted |-> NoFormatted, locals |-> NoLocals, raised |-> FALSE]

Init ==
    /\ detector_instance = 0
    /\ loads = 0
    /\ pc = [c \in Callers |-> "idle"]
    /\ req = [c \in Callers |-> NoRequest]
    /\ detector = [c \in Callers |-> 0]
    /\ invoked = [c \in Callers |-> FALSE]
    /\ inferring = {}
    /\ detect_result = [c \in Callers |-> NoResult]
    /\ stages = [c \in Callers |-> {}]
    /\ temp_files = {}
    /\ response = [c \in Callers |-> NoResponse]
    /\ a_call = NoCall
    /\ a_ret = NoRet
    /\ auth_call = NoAuthCall
    /\ auth_ret = NoAuthRet
    /\ cats = [i \in CatIds |-> NoRow]
    /\ next_id = 1
    /\ crud = NoCrud
    /\ crud_resp = NoCrudResp
    /\ cats_before = [i \in CatIds |-> NoRow]
    /\ pool = 0
    /\ pools_made = 0
    /\ pools_open = {}
    /\ co_pc = [k \in Coroutines |-> "idle"]
    /\ co_pool = [k \in Coroutines |-> 0]

\* ----------------------------------------------------------------- actions
\* analyze_cat_endpoint is a coroutine without an await in its body: the
\* event loop runs one invocation from start to finish before the next.
EventLoopFree(c) ==
    \A d \in Callers \ {c} : req[d].entry = "endpoint" => pc[d] \in {"idle", "done"}

\* Where a caller continues once CatDetector.detect_cat has returned.
AfterDetect(c) == IF req[c].entry = "endpoint" THEN "detected" ELSE "done"

\* analyze_cat_endpoint, vision.py lines 78-127: read the uid, download the
\* image, write it to a temporary file and call detect_cat.
AnalyzeCatEndpointBegin(c, user, download_ok, image) ==
    /\ pc[c] = "idle"
    /\ UNCHANGED <<analysis_vars, service_vars>>
    /\ EventLoopFree(c)
    /\ req' = [req EXCEPT ![c] = [entry |-> "endpoint", user |-> user,
                                  download_ok |-> download_ok, image |-> image]]
    /\ IF UserGet(user, "uid") = "None"
       THEN /\ response' = [response EXCEPT ![c] = HTTPException(401, "Invalid Firebase token")]
            /\ pc' = [pc EXCEPT ![c] = "done"]
            /\ UNCHANGED temp_files
       ELSE IF ~download_ok
       THEN /\ response' = [response EXCEPT ![c] = HTTPException(400, "Cannot download image")]
            /\ pc' = [pc EXCEPT ![c] = "done"]
            /\ UNCHANGED temp_files
       ELSE /\ temp_files' = temp_files \cup {c}
            /\ pc' = [pc EXCEPT ![c] = "get_detector"]
            /\ UNCHANGED response
    /\ UNCHANGED <<detector_instance, loads, detector, invoked, inferring,
                   detect_result, stages>>

\* detect_cat(image_path), detect_cat.py lines 166-168, called by a caller
\* other than the endpoint; such callers may overlap in time.
DetectCatCall(c, image) ==
    /\ pc[c] = "idle"
    /\ UNCHANGED <<analysis_vars, service_vars>>
    /\ req' = [req EXCEPT ![c] = [entry |-> "direct", user |-> NoUser,
                                  download_ok |-> FALSE, image |-> image]]
    /\ pc' = [pc EXCEPT ![c] = "get_detector"]
    /\ UNCHANGED <<detector_instance, loads, detector, invoked, inferring,
                   detect_result, stages, temp_files, response>>

\* get_detector line 162: "if _detector_instance is None".
GetDetectorCheck(c) ==
    /\ pc[c] = "get_detector"
    /\ UNCHANGED <<analysis_vars, service_vars>>
    /\ pc' = [pc EXCEPT ![c] = IF detector_instance = 0 THEN "create"
                                                        ELSE "return_detector"]
    /\ UNCHANGED <<detector_instance, loads, req, detector, invoked, inferring,
                   detect_result, stages, temp_files, response>>

\* get_detector line 163: CatDetector() loads the model (lines 11-14) and
\* the new instance is stored in the global.
GetDetectorCreate(c) ==
    /\ pc[c] = "create"
    /\ UNCHANGED <<analysis_vars, service_vars>>
    /\ loads' = loads + 1
    /\ detector_instance' = loads + 1
    /\ pc' = [pc EXCEPT ![c] = "return_detector"]
    /\ UNCHANGED <<req, detector, invoked, inferring, detect_result, stages,
                   temp_files, response>>

\* get_detector line 164 and detect_cat line 168: the global is read and
\* becomes the local "detector".
GetDetectorReturn(c) ==
    /\ pc[c] = "return_detector"
    /\ UNCHANGED <<analysis_vars, service_vars>>
    /\ detector' = [detector EXCEPT ![c] = detector_instance]
    /\ pc' = [pc EXCEPT ![c] = "detect_cat"]
    /\ UNCHANGED <<detector_instance, loads, req, invoked, inferring,
                   detect_result, stages, temp_files, response>>

\* CatDetector.detect_cat lines 21-36: decode the image and run the
\* quality gate; both can return early.
DetectCatLoad(c) ==
    /\ pc[c] = "detect_cat"
    /\ UNCHANGED <<analysis_vars, service_vars>>
    /\ LET image == req[c].image
           quality == check_image_quality(image)
       IN  IF ~image.decodable
           THEN /\ detect_result' = [detect_result EXCEPT ![c] = DecodeFailedResult]
                /\ pc' = [pc EXCEPT ![c] = AfterDetect(c)]
           ELSE IF QualityRejected(quality)
           THEN /\ detect_result' = [detect_result EXCEPT ![c] = QualityRejectedResult(quality)]
                /\ pc' = [pc EXCEPT ![c] = AfterDetect(c)]
           ELSE /\ pc' = [pc EXCEPT ![c] = "model"]
                /\ UNCHANGED detect_result
    /\ UNCHANGED <<detector_instance, loads, req, detector, invoked, inferring,
                   stages, temp_files, response>>

\* CatDetector.detect_cat line 38: self.model(image, ...) is entered.
ModelInvoke(c) ==
    /\ pc[c] = "model"
    /\ UNCHANGED <<analysis_vars, service_vars>>
    /\ invoked' = [invoked EXCEPT ![c] = TRUE]
    /\ inferring' = inferring \cup {c}
    /\ pc' = [pc EXCEPT ![c] = "inferring"]
    /\ UNCHANGED <<detector_instance, loads, req, detector, detect_result,
                   stages, temp_files, response>>

\* CatDetector.detect_cat lines 38-81: self.model(...) returns or raises,
\* and the method builds its result.
ModelReturn(c) ==
    /\ pc[c] = "inferring"
    /\ UNCHANGED <<analysis_vars, service_vars>>
    /\ inferring' = inferring \ {c}
    /\ LET image == req[c].image
           quality == check_image_quality(image)
       IN  detect_result' = [detect_result EXCEPT ![c] =
               IF image.model_raises
               THEN ExceptionResult("model error")
               ELSE DetectFromResults(quality, image.results)]
    /\ pc' = [pc EXCEPT ![c] = AfterDetect(c)]
    /\ UNCHANGED <<detector_instance, loads, req, detector, invoked, stages,
                   temp_files, response>>

\* vision.py lines 137-141.
NoCatResponse(dr) ==
    [NoResponse EXCEPT !.status = 200, !.confidence = dr.confidence,
                       !.message = "no cat found"]

\* vision.py lines 172-213: the response for a detected and analysed cat.
CatResponse(dr, analysis_result) ==
    [NoResponse EXCEPT !.status = 200, !.is_cat = TRUE,
                       !.confidence = dr.confidence, !.message = "cat found",
                       !.bounding_box = dr.bounding_box,
                       !.measurements = FormatMeasurements(analysis_result)]

\* The temporary files when the cleanup sits at the end of the try block.
TempFilesAfter_try_only(files, c, raised) == IF raised THEN files ELSE files \ {c}

\* vision.py lines 215-221: the finally clause unlinks the caller's
\* temporary file whether or not the try block raised.
TempFilesAfter(files, c, raised) == files \ {c}

\* analyze_cat_endpoint, vision.py lines 129-234: answer from the detection
\* result, analyse the cat, delete the temporary file.
AnalyzeCatEndpointFinish(c) ==
    /\ pc[c] = "detected"
    /\ UNCHANGED <<analysis_vars, service_vars>>
    /\ LET dr == detect_result[c]
           analysis == AnalyzeCatCall(endpoint_kwargs, dr.bounding_box, "None")
       IN  IF ~dr.is_cat
           THEN /\ response' = [response EXCEPT ![c] = NoCatResponse(dr)]
                /\ UNCHANGED stages
           ELSE IF "bounding_box" \notin dr.keys
           THEN /\ response' = [response EXCEPT ![c] = HTTPException(500, "Analysis failed")]
                /\ UNCHANGED stages
           ELSE /\ stages' = [stages EXCEPT ![c] = analysis.stages]
                /\ response' = [response EXCEPT ![c] =
                       IF analysis.raised
                       THEN HTTPException(500, "Analysis failed")
                       ELSE CatResponse(dr, analysis.result)]
    /\ temp_files' = TempFilesAfter(temp_files, c, response'[c].status # 200)
    /\ pc' = [pc EXCEPT ![c] = "done"]
    /\ UNCHANGED <<detector_instance, loads, req, detector, invoked, inferring,
                   detect_result>>

\* The call is over: its caller has the result and the frame is dropped.
CallReturns(c) ==
    /\ pc[c] = "done"
    /\ UNCHANGED <<analysis_vars, service_vars>>
    /\ pc' = [pc EXCEPT ![c] = "idle"]
    /\ req' = [req EXCEPT ![c] = NoRequest]
    /\ detector' = [detector EXCEPT ![c] = 0]
    /\ invoked' = [invoked EXCEPT ![c] = FALSE]
    /\ detect_result' = [detect_result EXCEPT ![c] = NoResult]
    /\ stages' = [stages EXCEPT ![c] = {}]
    /\ response' = [response EXCEPT ![c] = NoResponse]
    /\ UNCHANGED <<detector_instance, loads, inferring, temp_files>>

Step(c, images) ==
    \/ \E user \in Users, download_ok \in BOOLEAN, image \in images :
           AnalyzeCatEndpointBegin(c, user, download_ok, image)
    \/ \E image \in images : DetectCatCall(c, image)
    \/ GetDetectorCheck(c)
    \/ GetDetectorCreate(c)
    \/ GetDetectorReturn(c)
    \/ DetectCatLoad(c)
    \/ ModelInvoke(c)
    \/ ModelReturn(c)
    \/ AnalyzeCatEndpointFinish(c)
    \/ CallReturns(c)

\* Callers overlapping in time.
Next == \E c \in Callers : Step(c, SmallImages)

Spec == Init /\ [][Next]_vars

\* One caller at a time, over the wide set of images.
NextOne == Step(1, WideImages)

SpecOne == Init /\ [][NextOne]_vars

TypeOK ==
    /\ detector_instance \in 0..NumCallers
    /\ loads \in 0..NumCallers
    /\ pc \in [Callers -> {"idle", "get_detector", "create", "return_detector",
                           "detect_cat", "model", "inferring", "detected", "done"}]
    /\ inferring \subseteq Callers
    /\ temp_files \subseteq Callers

\* ------------------------------------------------ analysis_cat.py calls
\* Boxes the pure functions are applied to: every w x h up to MaxSide, and
\* larger boxes at the thresholds of the confidence, of the quality flag
\* and of the rounding to one decimal.
LargeSizes ==
    { <<300, 200>>, <<299, 200>>, <<301, 200>>, <<150, 100>>, <<250, 210>>,
      <<300, 300>>, <<400, 300>>, <<200, 300>>, <<10, 200>>, <<1, 480>>,
      <<1, 751>>, <<1, 1500>> }

GridSizes == (1..MaxSide) \X (1..MaxSide)

\* No round() of estimate_body_metrics or estimate_weight is applied to a
\* value exactly half-way between two results for a w x h box.
TieFree(w, h) ==
    LET p == estimate_posture(w, h)
        pixel_to_cm == PixelToCm(h, p.posture)
        length == BodyLengthExact(w, pixel_to_cm, p.posture)
        chest == ChestExact(w, pixel_to_cm, p.factor)
        chest_cm == ChestCm(w, pixel_to_cm, p.factor)
        conf == ConfidenceExact(w, h)
    IN  /\ ~IsTie(length[1], length[2])
        /\ ~IsTie(chest[1], chest[2])
        /\ ~IsTie(chest_cm * 62, 100)
        /\ ~IsTie(conf[1], conf[2])
        /\ ~WeightIsTie(chest_cm, BodyLengthCm(w, pixel_to_cm, p.posture), "unknown")

AnalysisSizes == {s \in GridSizes \cup LargeSizes : TieFree(s[1], s[2])}

\* Boxes with x2 <= x1 or y2 <= y1: empty, flat and inverted ones.
DegenerateBboxes ==
    { ListBbox(5, 5, 5, 5), ListBbox(0, 0, 0, 7), ListBbox(0, 0, 7, 0),
      ListBbox(10, 10, 3, 2), ListBbox(10, 0, 3, 7), ListBbox(0, 10, 7, 2) }

\* The boxes as lists [x1, y1, x2, y2]; one of them away from the origin.
AnalysisBboxes ==
    {ListBbox(0, 0, s[1], s[2]) : s \in AnalysisSizes}
    \cup {ListBbox(100, 150, 400, 350)}
    \cup {b \in DegenerateBboxes : TieFree(Max(b.w - b.x, 1), Max(b.h - b.y, 1))}

Breeds == DOMAIN BREED_MODIFIER \cup {"persian"}

\* Arguments of estimate_weight, in tenths.
WeightArgs ==
    {a \in [chest_cm : {0, 36, 239, 240, 320, 446, 725, 1092},
            body_length_cm : {0, 19, 250, 382, 682},
            breed : Breeds] :
        ~WeightIsTie(a.chest_cm, a.body_length_cm, a.breed)}

\* Arguments of determine_size, in tenths, on both sides of every threshold.
SizeArgs ==
    [weight : {0, 10, 24, 25, 39, 40, 59, 60, 84, 85, 200},
     chest_cm : {50, 239, 240, 319, 320, 379, 380, 400, 449, 450, 500}]

CatColors == {"None", "orange_white"}

\* Boxes analyze_cat is called on with a breed.
BreedBboxes == {ListBbox(100, 150, 400, 350), ListBbox(0, 0, 20, 12)}

\* estimate_posture(w, h).
EstimatePosture(w, h) ==
    /\ a_call.fn = "none"
    /\ a_call' = [NoCall EXCEPT !.fn = "estimate_posture", !.w = w, !.h = h]
    /\ a_ret' = [NoRet EXCEPT !.posture = estimate_posture(w, h)]
    /\ UNCHANGED <<pipeline_vars, service_vars>>

\* estimate_body_metrics(bbox).
EstimateBodyMetrics(bbox) ==
    /\ a_call.fn = "none"
    /\ a_call' = [NoCall EXCEPT !.fn = "estimate_body_metrics", !.bbox = bbox]
    /\ a_ret' = [NoRet EXCEPT !.metrics = estimate_body_metrics(bbox),
                              !.locals = BodyMetricsLocals(bbox)]
    /\ UNCHANGED <<pipeline_vars, service_vars>>

\* estimate_weight(chest_cm, body_length_cm, breed).
EstimateWeight(args) ==
    /\ a_call.fn = "none"
    /\ a_call' = [NoCall EXCEPT !.fn = "estimate_weight",
                                !.chest_cm = args.chest_cm,
                                !.body_length_cm = args.body_length_cm,
                                !.breed = args.breed]
    /\ a_ret' = [NoRet EXCEPT !.weight =
                     estimate_weight(args.chest_cm, args.body_length_cm, args.breed)]
    /\ UNCHANGED <<pipeline_vars, service_vars>>

\* determine_size(weight, chest_cm).
DetermineSize(args) ==
    /\ a_call.fn = "none"
    /\ a_call' = [NoCall EXCEPT !.fn = "determine_size", !.weight = args.weight,
                                !.chest_cm = args.chest_cm]
    /\ a_ret' = [NoRet EXCEPT !.size = determine_size(args.weight, args.chest_cm)]
    /\ UNCHANGED <<pipeline_vars, service_vars>>

\* analyze_cat(image_path, bounding_box, cat_color) with a list box.
AnalyzeCat(bbox, cat_color) ==
    /\ a_call.fn = "none"
    /\ a_call' = [NoCall EXCEPT !.fn = "analyze_cat", !.bbox = bbox,
                                !.cat_color = cat_color]
    /\ a_ret' = [NoRet EXCEPT !.analysis = analyze_cat(bbox, cat_color).result]
    /\ UNCHANGED <<pipeline_vars, service_vars>>

\* analyze_cat(image_path, bounding_box, breed=breed): the caller supplies
\* a breed by keyword.
AnalyzeCatBreed(bbox, breed) ==
    /\ a_call.fn = "none"
    /\ a_call' = [NoCall EXCEPT !.fn = "analyze_cat_breed", !.bbox = bbox,
                                !.breed = breed]
    /\ LET call == AnalyzeCatCall({"image_path", "bounding_box", "breed"},
                                  bbox, "None")
       IN  a_ret' = [NoRet EXCEPT !.analysis = call.result,
                                  !.raised = call.raised]
    /\ UNCHANGED <<pipeline_vars, service_vars>>

\* vision.py lines 172-190 applied to the dict analyze_cat returned.
FormatAnalysis ==
    /\ a_call.fn = "analyze_cat"
    /\ a_call' = [a_call EXCEPT !.fn = "format_response"]
    /\ a_ret' = [a_ret EXCEPT !.formatted = FormatMeasurements(a_ret.analysis)]
    /\ UNCHANGED <<pipeline_vars, service_vars>>

\* The call is over and its caller has the value.
AnalysisReturns ==
    /\ a_call.fn # "none"
    /\ a_call' = NoCall
    /\ a_ret' = NoRet
    /\ UNCHANGED <<pipeline_vars, service_vars>>

NextAnalysis ==
    \/ \E s \in GridSizes \cup LargeSizes : EstimatePosture(s[1], s[2])
    \/ \E bbox \in AnalysisBboxes : EstimateBodyMetrics(bbox)
    \/ \E args \in WeightArgs : EstimateWeight(args)
    \/ \E args \in SizeArgs : DetermineSize(args)
    \/ \E bbox \in AnalysisBboxes, cat_color \in CatColors : AnalyzeCat(bbox, cat_color)
    \/ \E bbox \in BreedBboxes, breed \in Breeds : AnalyzeCatBreed(bbox, breed)
    \/ FormatAnalysis
    \/ AnalysisReturns

\* The functions of analysis_cat.py applied to bounded inputs.
SpecAnalysis == Init /\ [][NextAnalysis]_vars

\* ------------------------------------------------ verify_firebase_token calls
\* A request arrives with a bearer token and the dependency answers.
VerifyFirebaseToken(enabled, token) ==
    /\ auth_call.fn = "none"
    /\ auth_call' = [fn |-> "verify_firebase_token", enabled |-> enabled,
                     token |-> token]
    /\ auth_ret' = verify_firebase_token(enabled, token)
    /\ UNCHANGED <<pipeline_vars, analysis_vars, crud_vars, pool_vars>>

\* The request is over.
AuthReturns ==
    /\ auth_call.fn # "none"
    /\ auth_call' = NoAuthCall
    /\ auth_ret' = NoAuthRet
    /\ UNCHANGED <<pipeline_vars, analysis_vars, crud_vars, pool_vars>>

NextAuth ==
    \/ \E enabled \in BOOLEAN, token \in Tokens : VerifyFirebaseToken(enabled, token)
    \/ AuthReturns

SpecAuth == Init /\ [][NextAuth]_vars

\* ------------------------------------------------- cat_crud_api.py handlers
\* Each handler runs in its own database session and transaction; it is
\* taken as one step from the request to the answer.
\* What every handler records when it is called.
CrudCalled(call) ==
    /\ crud.fn = "none"
    /\ crud' = call
    /\ cats_before' = cats
    /\ UNCHANGED <<pipeline_vars, analysis_vars, auth_vars, pool_vars>>

\* create_cat (lines 23-80).
CreateCat(user, body, commit_ok) ==
    /\ next_id <= MaxCats
    /\ CrudCalled([NoCrud EXCEPT !.fn = "create_cat", !.user = user,
                                 !.body = body, !.commit_ok = commit_ok])
    /\ LET firebase_uid == UserGet(user, "uid")
           new_cat == [id |-> next_id, firebase_uid |-> firebase_uid,
                       name |-> body.name, weight |-> body.weight,
                       updated_at |-> "None"]
       IN  IF firebase_uid = "None"
           THEN /\ crud_resp' = CrudException(401, "Invalid Firebase token")
                /\ UNCHANGED <<cats, next_id>>
           ELSE IF ~commit_ok
           THEN /\ crud_resp' = CrudException(500, "Failed to create cat")
                /\ UNCHANGED <<cats, next_id>>
           ELSE /\ cats' = [cats EXCEPT ![next_id] = new_cat]
                /\ next_id' = next_id + 1
                /\ crud_resp' = success_response(201, {new_cat})

\* get_user_cats (lines 86-136).
GetUserCats(user, skip, limit) ==
    /\ CrudCalled([NoCrud EXCEPT !.fn = "get_user_cats", !.user = user,
                                 !.skip = skip, !.limit = limit])
    /\ LET firebase_uid == UserGet(user, "uid")
       IN  crud_resp' =
               IF firebase_uid = "None"
               THEN CrudException(401, "Invalid Firebase token")
               ELSE success_response(200, Page(QueryOwned(cats, firebase_uid), skip, limit))
    /\ UNCHANGED <<cats, next_id>>

\* get_cat (lines 142-172).
GetCat(user, cat_id) ==
    /\ CrudCalled([NoCrud EXCEPT !.fn = "get_cat", !.user = user, !.cat_id = cat_id])
    /\ LET cat == FirstOwned(cats, cat_id, UserGet(user, "uid"))
       IN  crud_resp' =
               IF cat = NoRow
               THEN CrudException(404, "not found or not owned by you")
               ELSE success_response(200, {cat})
    /\ UNCHANGED <<cats, next_id>>

\* update_cat (lines 178-233); when the commit fails the session is
\* rolled back.
UpdateCat(user, cat_id, payload, commit_ok) ==
    /\ CrudCalled([NoCrud EXCEPT !.fn = "update_cat", !.user = user,
                                 !.cat_id = cat_id, !.payload = payload,
                                 !.commit_ok = commit_ok])
    /\ LET cat == FirstOwned(cats, cat_id, UserGet(user, "uid"))
           updated == ApplyUpdate(cat, payload)
       IN  IF cat = NoRow
           THEN /\ crud_resp' = CrudException(404, "not found or not owned by you")
                /\ UNCHANGED cats
           ELSE IF ~commit_ok
           THEN /\ crud_resp' = CrudException(500, "Failed to update cat")
                /\ UNCHANGED cats
           ELSE /\ cats' = [cats EXCEPT ![cat.id] = updated]
                /\ crud_resp' = success_response(200, {updated})
    /\ UNCHANGED next_id

\* delete_cat (lines 239-282).
DeleteCat(user, cat_id, commit_ok) ==
    /\ CrudCalled([NoCrud EXCEPT !.fn = "delete_cat", !.user = user,
                                 !.cat_id = cat_id, !.commit_ok = commit_ok])
    /\ LET cat == FirstOwned(cats, cat_id, UserGet(user, "uid"))
       IN  IF cat = NoRow
           THEN /\ crud_resp' = CrudException(404, "not found or not owned by you")
                /\ UNCHANGED cats
           ELSE IF ~commit_ok
           THEN /\ crud_resp' = CrudException(500, "Failed to delete cat")
                /\ UNCHANGED cats
           ELSE /\ cats' = [cats EXCEPT ![cat.id] = NoRow]
                /\ crud_resp' = success_response(200, {})
    /\ UNCHANGED next_id

\* search_cats (lines 288-345) with the weight filters; "if min_weight:"
\* takes 0 as no filter.
SearchCats(user, min_weight, max_weight) ==
    /\ CrudCalled([NoCrud EXCEPT !.fn = "search_cats", !.user = user,
                                 !.min_weight = min_weight,
                                 !.max_weight = max_weight, !.limit = 100])
    /\ LET query == {row \in QueryOwned(cats, UserGet(user, "uid")) :
                        /\ min_weight # 0 => row.weight >= min_weight
                        /\ max_weight # 0 => row.weight <= max_weight}
       IN  crud_resp' = success_response(200, Page(query, 0, 100))
    /\ UNCHANGED <<cats, next_id>>

\* get_all_cats_admin (lines 351-393): the check of the role is a comment
\* (lines 366-368).
GetAllCatsAdmin(user, is_admin, skip, limit) ==
    /\ CrudCalled([NoCrud EXCEPT !.fn = "get_all_cats_admin", !.user = user,
                                 !.is_admin = is_admin, !.skip = skip,
                                 !.limit = limit])
    /\ crud_resp' = success_response(200, Page(Rows(cats), skip, limit))
    /\ UNCHANGED <<cats, next_id>>

\* The request is over.
CrudReturns ==
    /\ crud.fn # "none"
    /\ crud' = NoCrud
    /\ crud_resp' = NoCrudResp
    /\ cats_before' = cats
    /\ UNCHANGED <<cats, next_id>>
    /\ UNCHANGED <<pipeline_vars, analysis_vars, auth_vars, pool_vars>>

NextCrud ==
    \/ \E user \in CrudUsers, body \in CatCreates, commit_ok \in BOOLEAN :
           CreateCat(user, body, commit_ok)
    \/ \E user \in CrudUsers, skip \in {0, 1}, limit \in {1, 100} :
           GetUserCats(user, skip, limit)
    \/ \E user \in CrudUsers, cat_id \in CatIds : GetCat(user, cat_id)
    \/ \E user \in CrudUsers, cat_id \in CatIds, payload \in CatUpdates,
          commit_ok \in BOOLEAN : UpdateCat(user, cat_id, payload, commit_ok)
    \/ \E user \in CrudUsers, cat_id \in CatIds, commit_ok \in BOOLEAN :
           DeleteCat(user, cat_id, commit_ok)
    \/ \E user \in CrudUsers, min_weight \in {0, 40},
          max_weight \in {0, 40} : SearchCats(user, min_weight, max_weight)
    \/ \E user \in CrudUsers, is_admin \in BOOLEAN, skip \in {0, 1},
          limit \in {1, 100} : GetAllCatsAdmin(user, is_admin, skip, limit)
    \/ CrudReturns

SpecCrud == Init /\ [][NextCrud]_vars

\* --------------------------------------------------- db/database.py coroutines
\* A coroutine runs until it awaits; between two awaits it is one step.
\* "if _pool is None:" then the call of asyncpg.create_pool, at whose await
\* the coroutine is suspended (lines 15-22); else "return _pool" (line 36).
CheckThenCreate(k, awaiting) ==
    /\ IF pool = 0
       THEN /\ co_pc' = [co_pc EXCEPT ![k] = awaiting]
            /\ UNCHANGED co_pool
       ELSE /\ co_pc' = [co_pc EXCEPT ![k] = "returned"]
            /\ co_pool' = [co_pool EXCEPT ![k] = pool]
    /\ UNCHANGED <<pool, pools_made, pools_open>>
    /\ UNCHANGED <<pipeline_vars, analysis_vars, auth_vars, crud_vars>>

\* asyncpg.create_pool is over: the new pool is assigned to _pool and
\* returned (lines 22-36), or the exception is raised again (lines 32-34).
CreatePoolIsOver(k, ok) ==
    /\ IF ok
       THEN /\ pools_made < MaxPools
            /\ pools_made' = pools_made + 1
            /\ pools_open' = pools_open \cup {pools_made + 1}
            /\ pool' = pools_made + 1
            /\ co_pool' = [co_pool EXCEPT ![k] = pools_made + 1]
            /\ co_pc' = [co_pc EXCEPT ![k] = "returned"]
       ELSE /\ co_pc' = [co_pc EXCEPT ![k] = "raised"]
            /\ UNCHANGED <<pool, pools_made, pools_open, co_pool>>
    /\ UNCHANGED <<pipeline_vars, analysis_vars, auth_vars, crud_vars>>

\* create_db_pool (lines 9-36) up to its await.
CreateDbPool(k) ==
    /\ co_pc[k] = "idle"
    /\ CheckThenCreate(k, "create_db_pool")

\* create_db_pool from its await to its end.
CreateDbPoolResumes(k, ok) ==
    /\ co_pc[k] = "create_db_pool"
    /\ CreatePoolIsOver(k, ok)

\* get_db_pool (lines 51-58) up to the await inside the create_db_pool it
\* calls, which makes the same test of _pool.
GetDbPool(k) ==
    /\ co_pc[k] = "idle"
    /\ CheckThenCreate(k, "get_db_pool")

\* get_db_pool from that await to its end: create_db_pool assigns and
\* returns _pool, and line 57 assigns it once more.
GetDbPoolResumes(k, ok) ==
    /\ co_pc[k] = "get_db_pool"
    /\ CreatePoolIsOver(k, ok)

\* close_db_pool (lines 39-48) up to "await _pool.close()".
CloseDbPool(k) ==
    /\ co_pc[k] = "idle"
    /\ IF pool # 0
       THEN /\ co_pc' = [co_pc EXCEPT ![k] = "close_db_pool"]
            /\ co_pool' = [co_pool EXCEPT ![k] = pool]
       ELSE /\ co_pc' = [co_pc EXCEPT ![k] = "closed"]
            /\ UNCHANGED co_pool
    /\ UNCHANGED <<pool, pools_made, pools_open>>
    /\ UNCHANGED <<pipeline_vars, analysis_vars, auth_vars, crud_vars>>

\* close_db_pool after the await: the pool is closed and "_pool = None"
\* (line 47).
CloseDbPoolResumes(k) ==
    /\ co_pc[k] = "close_db_pool"
    /\ pools_open' = pools_open \ {co_pool[k]}
    /\ pool' = 0
    /\ co_pc' = [co_pc EXCEPT ![k] = "closed"]
    /\ UNCHANGED <<pools_made, co_pool>>
    /\ UNCHANGED <<pipeline_vars, analysis_vars, auth_vars, crud_vars>>

\* The caller has its answer; the coroutine is free for another call.
PoolReturns(k) ==
    /\ co_pc[k] \in {"returned", "raised", "closed"}
    /\ co_pc' = [co_pc EXCEPT ![k] = "idle"]
    /\ co_pool' = [co_pool EXCEPT ![k] = 0]
    /\ UNCHANGED <<pool, pools_made, pools_open>>
    /\ UNCHANGED <<pipeline_vars, analysis_vars, auth_vars, crud_vars>>

NextPool ==
    \/ \E k \in Coroutines : CreateDbPool(k)
    \/ \E k \in Coroutines, ok \in BOOLEAN : CreateDbPoolResumes(k, ok)
    \/ \E k \in Coroutines : GetDbPool(k)
    \/ \E k \in Coroutines, ok \in BOOLEAN : GetDbPoolResumes(k, ok)
    \/ \E k \in Coroutines : CloseDbPool(k)
    \/ \E k \in Coroutines : CloseDbPoolResumes(k)
    \/ \E k \in Coroutines : PoolReturns(k)

SpecPool == Init /\ [][NextPool]_vars

\* ------------------------------------------------------------ properties
\* CatDetector.detect_cat has returned to caller c.
DetectReturned(c) == detect_result[c].keys # {}

\* The boxes the detection model reports for an image (one result per image).
ImageBoxes(image) == IF image.results = <<>> THEN <<>> ELSE image.results[1]

CatIndices(boxes) == {i \in 1..Len(boxes) : boxes[i].cls = 15}

\* C1: whenever the quality gate reports is_valid = false for the image of
\* a call, the detection model is never invoked during that call, and the
\* call returns is_cat = false with the quality reason.
C1_QualityGateHalts ==
    \A c \in Callers :
        LET image == req[c].image
            quality == check_image_quality(image)
        IN  (req[c].entry # "none" /\ image.decodable /\ ~quality.is_valid)
            => /\ ~invoked[c]
               /\ c \notin inferring
               /\ pc[c] \notin {"model", "inferring"}
               /\ DetectReturned(c) =>
                      /\ detect_result[c].is_cat = FALSE
                      /\ detect_result[c].error =
                             [msg |-> "quality rejected", detail |-> quality.reason]
                      /\ detect_result[c].quality_check = quality

C1_Witness ==
    \E c \in Callers :
        /\ pc[c] = "done"
        /\ req[c].image.decodable
        /\ ~check_image_quality(req[c].image).is_valid
        /\ detect_result[c].error.msg = "quality rejected"
        /\ ~invoked[c]

\* C2: when the model's output holds no box of the cat class, the detection
\* result is is_cat = false, confidence = 0.0, without a bounding box, and
\* no analysis stage (posture, body metrics, weight, size) runs.
C2_NoDetection ==
    \A c \in Callers :
        LET image == req[c].image
            dr == detect_result[c]
        IN  (DetectReturned(c) /\ invoked[c] /\ ~image.model_raises
                /\ CatIndices(ImageBoxes(image)) = {})
            => /\ dr.is_cat = FALSE
               /\ dr.confidence = 0
               /\ "bounding_box" \notin dr.keys
               /\ dr.bounding_box = NoBbox
               /\ stages[c] = {}
               /\ (req[c].entry = "endpoint" /\ pc[c] = "done")
                      => (response[c].status = 200 /\ ~response[c].is_cat)

C2_Witness ==
    \E c \in Callers :
        /\ req[c].entry = "endpoint"
        /\ pc[c] = "done"
        /\ invoked[c]
        /\ ~req[c].image.model_raises
        /\ Len(ImageBoxes(req[c].image)) > 0
        /\ CatIndices(ImageBoxes(req[c].image)) = {}
        /\ ~detect_result[c].is_cat
        /\ response[c].status = 200
        /\ stages[c] = {}

\* C3: for an image that passes the quality gate and in which the model
\* finds a cat box, the bounding box detect_cat emits is accepted by
\* analyze_cat, all four analysis stages run and the endpoint answers with
\* the analysis result, not an error.
C3_CatFoundIsAnalysed ==
    \A c \in Callers :
        (req[c].entry = "endpoint" /\ pc[c] = "done" /\ detect_result[c].is_cat)
        => /\ ~analyze_cat(detect_result[c].bounding_box, "None").raised
           /\ stages[c] = Stages
           /\ response[c].status = 200
           /\ response[c].is_cat

\* C4: when the model invocation raises, the caller of detect_cat does not
\* receive the is_cat = false / confidence = 0.0 outcome of a model that
\* found no cat.
C4_InferenceFailureSurfaced ==
    \A c \in Callers :
        (DetectReturned(c) /\ invoked[c] /\ req[c].image.model_raises)
        => ~(detect_result[c].is_cat = FALSE /\ detect_result[c].confidence = 0)

\* C5: when the image cannot be decoded, detect_cat does not return a
\* zero-confidence detection result (is_cat = false, confidence = 0.0).
C5_DecodeFailureDistinct ==
    \A c \in Callers :
        (DetectReturned(c) /\ ~req[c].image.decodable)
        => ~(detect_result[c].is_cat = FALSE /\ detect_result[c].confidence = 0)

\* C6: every result detect_cat returns, on every return path, has a
\* bounding box if and only if is_cat is true.
C6_BboxIffIsCat ==
    \A c \in Callers :
        DetectReturned(c)
        => /\ ("bounding_box" \in detect_result[c].keys) <=> detect_result[c].is_cat
           /\ (detect_result[c].bounding_box # NoBbox) <=> detect_result[c].is_cat

C6_Witness ==
    \E c \in Callers :
        /\ DetectReturned(c)
        /\ detect_result[c].is_cat
        /\ "bounding_box" \in detect_result[c].keys
        /\ detect_result[c].bounding_box.kind = "dict"

\* Box i is a cat box of maximum confidence, and the first such box.
IsChosen(boxes, i) ==
    /\ i \in CatIndices(boxes)
    /\ \A j \in CatIndices(boxes) :
           \/ boxes[j].conf < boxes[i].conf
           \/ (boxes[j].conf = boxes[i].conf /\ j >= i)

\* C7: detect_cat returns the cat-class box of maximum unrounded
\* confidence, the first one on a tie, never a box of another class, and
\* the reported confidence is that box's confidence rounded to 2 decimals.
C7_BestCatSelected ==
    \A c \in Callers :
        LET boxes == ImageBoxes(req[c].image)
            dr == detect_result[c]
        IN  (DetectReturned(c) /\ invoked[c] /\ ~req[c].image.model_raises
                /\ CatIndices(boxes) # {})
            => \E i \in 1..Len(boxes) :
                   /\ IsChosen(boxes, i)
                   /\ dr.is_cat
                   /\ dr.bounding_box = Detection(boxes[i]).bbox
                   /\ dr.confidence = Round2(boxes[i].conf)
                   /\ dr.total_cats_detected = Cardinality(CatIndices(boxes))

\* Two cat boxes whose confidences round to the same value; the second has
\* the larger unrounded confidence and is the one returned.
C7_Witness ==
    \E c \in Callers :
        LET boxes == ImageBoxes(req[c].image)
        IN  /\ DetectReturned(c)
            /\ detect_result[c].is_cat
            /\ Len(boxes) = 2
            /\ CatIndices(boxes) = {1, 2}
            /\ boxes[1].conf < boxes[2].conf
            /\ Round2(boxes[1].conf) = Round2(boxes[2].conf)
            /\ boxes[1].xyxy # boxes[2].xyxy
            /\ detect_result[c].bounding_box = Detection(boxes[2]).bbox

\* C8: the detection model is loaded at most once, and all invocations use
\* the same CatDetector instance.
C8_LoadedAtMostOnce ==
    /\ loads <= 1
    /\ \A c, d \in Callers :
           (detector[c] # 0 /\ detector[d] # 0) => detector[c] = detector[d]

\* C9: no two model inferences are in progress on the same CatDetector
\* instance at the same time.
C9_InferenceSerialized ==
    \A c, d \in inferring : c # d => detector[c] # detector[d]

\* The thresholds an image violates, and the reason of the first one.
TooSmall(image) == image.width < 100 \/ image.height < 100
TooBlurry(image) == image.sharpness < 50
BadBrightness(image) == image.brightness < 30 \/ image.brightness > 225

\* C10: check_image_quality reports is_valid = false exactly when the image
\* is smaller than 100 px on a side, or its sharpness is below 50, or its
\* brightness is outside [30, 225]; the reason is that of the first failing
\* check in the order size, sharpness, brightness.
C10_QualityGate ==
    \A c \in Callers :
        LET image == req[c].image
            q == detect_result[c].quality_check
        IN  (DetectReturned(c) /\ image.decodable /\ ~image.model_raises)
            => /\ q.present
               /\ q.is_valid <=> ~(TooSmall(image) \/ TooBlurry(image) \/ BadBrightness(image))
               /\ TooSmall(image) => q.reason = "image too small"
               /\ (~TooSmall(image) /\ TooBlurry(image)) => q.reason = "image too blurry"
               /\ (~TooSmall(image) /\ ~TooBlurry(image) /\ BadBrightness(image))
                      => q.reason = "unsuitable brightness"

\* A blurry image of sufficient size whose brightness is out of range too:
\* the reason reported is the blur.
C10_Witness ==
    \E c \in Callers :
        LET image == req[c].image
        IN  /\ DetectReturned(c)
            /\ image.decodable
            /\ ~TooSmall(image) /\ TooBlurry(image) /\ BadBrightness(image)
            /\ detect_result[c].quality_check.reason = "image too blurry"

\* ------------------------------------------- properties of analysis_cat.py
\* Width and height of the box of the call in progress.
CallWidth == Max(a_call.bbox.w - a_call.bbox.x, 1)
CallHeight == Max(a_call.bbox.h - a_call.bbox.y, 1)

\* C11: estimate_posture returns a value for every w >= 1, h >= 1:
\* (lying, 0.85) exactly when w/h > 1.4, (sitting, 0.92) exactly when
\* w/h < 0.9 and (standing, 1.0) otherwise, so that the ratios 1.4 and 0.9
\* themselves are standing; ratio 2.0 is lying, 0.5 sitting, 1.0 standing.
C11_PostureClassification ==
    a_call.fn = "estimate_posture" =>
        LET w == a_call.w
            h == a_call.h
            p == a_ret.posture
        IN  /\ w >= 1 /\ h >= 1
            /\ p \in {[posture |-> "lying", factor |-> 85],
                      [posture |-> "sitting", factor |-> 92],
                      [posture |-> "standing", factor |-> 100]}
            /\ p.posture = "lying" <=> 10 * w > 14 * h
            /\ p.posture = "sitting" <=> 10 * w < 9 * h
            /\ p.posture = "standing" <=> (9 * h <= 10 * w /\ 10 * w <= 14 * h)
            /\ w = 2 * h => p.posture = "lying"
            /\ 2 * w = h => p.posture = "sitting"
            /\ w = h => p.posture = "standing"

\* A call with ratio exactly 1.4 has returned standing.
C11_Witness ==
    /\ a_call.fn = "estimate_posture"
    /\ 10 * a_call.w = 14 * a_call.h
    /\ a_ret.posture = [posture |-> "standing", factor |-> 100]

\* C12: estimate_body_metrics computes pixel_to_cm = 25 / max(h *
\* torso_ratio, 1) with torso_ratio 0.55 / 0.60 / 0.65 for lying / sitting /
\* standing, body_length_cm = round(w * pixel_to_cm * (1.0 if lying else
\* 0.9), 1), chest_cm = round(pi * (w * pixel_to_cm) * 0.6 * factor, 1) and
\* neck_cm = round(chest_cm * 0.62, 1) of the rounded chest; a 300 x 200 box
\* is lying (factor 0.85, torso_ratio 0.55) with these measurements.
C12_BodyMetricsFormulas ==
    a_call.fn = "estimate_body_metrics" =>
        LET w == CallWidth
            h == CallHeight
            m == a_ret.metrics
            lying == 10 * w > 14 * h
            sitting == 10 * w < 9 * h
            torso_ratio == IF lying THEN 55 ELSE IF sitting THEN 60 ELSE 65
            factor == IF lying THEN 85 ELSE IF sitting THEN 92 ELSE 100
            effective_height == Max(h * torso_ratio, 100)
        IN  /\ m.posture = IF lying THEN "lying"
                           ELSE IF sitting THEN "sitting" ELSE "standing"
            /\ m.body_length_cm =
                   RoundHalfEven(w * 2500 * (IF lying THEN 10 ELSE 9),
                                 effective_height)
            /\ m.chest_cm =
                   RoundHalfEven(PI_NUM * w * 25 * 6 * factor,
                                 PI_DEN * effective_height)
            /\ m.neck_cm = RoundHalfEven(m.chest_cm * 62, 100)
            /\ (w = 300 /\ h = 200) =>
                   /\ m.posture = "lying"
                   /\ m.chest_cm = 1092
                   /\ m.neck_cm = 677
                   /\ m.body_length_cm = 682

\* The 300 x 200 box [100, 150, 400, 350] has been measured.
C12_Witness ==
    /\ a_call.fn = "estimate_body_metrics"
    /\ a_call.bbox = ListBbox(100, 150, 400, 350)
    /\ a_ret.metrics.posture = "lying"
    /\ a_ret.metrics.chest_cm = 1092
    /\ a_ret.metrics.neck_cm = 677
    /\ a_ret.metrics.body_length_cm = 682

\* C13: for every box with w >= 1 and h >= 1, very narrow and very tall
\* ones included, the rounded values estimate_body_metrics returns satisfy
\* body_length_cm > 0 and chest_cm > 0.
C13_PositiveMeasurements ==
    (a_call.fn = "estimate_body_metrics" /\ CallWidth >= 1 /\ CallHeight >= 1)
    => /\ a_ret.metrics.body_length_cm > 0
       /\ a_ret.metrics.chest_cm > 0

Area(bbox) == BoxWidth(bbox) * BoxHeight(bbox)

\* C14 as stated: of two boxes classified with the same posture, the one of
\* strictly larger area w * h has the strictly larger chest_cm and the
\* strictly larger body_length_cm.
C14_MonotoneInArea ==
    a_call.fn = "estimate_body_metrics" =>
        \A second \in AnalysisBboxes :
            LET m1 == a_ret.metrics
                m2 == estimate_body_metrics(second)
            IN  (m1.posture = m2.posture /\ Area(second) > Area(a_call.bbox))
                => /\ m2.chest_cm > m1.chest_cm
                   /\ m2.body_length_cm > m1.body_length_cm

\* C14, amended: of two boxes classified with the same posture, a wider box
\* of the same height has neither a smaller chest_cm nor a smaller
\* body_length_cm, and a taller box of the same width has neither a larger
\* chest_cm nor a larger body_length_cm.
C14_MonotoneInWidth ==
    a_call.fn = "estimate_body_metrics" =>
        \A second \in AnalysisBboxes :
            LET m1 == a_ret.metrics
                m2 == estimate_body_metrics(second)
                w1 == CallWidth
                h1 == CallHeight
                w2 == BoxWidth(second)
                h2 == BoxHeight(second)
            IN  m1.posture = m2.posture =>
                    /\ (h2 = h1 /\ w2 > w1) =>
                           /\ m2.chest_cm >= m1.chest_cm
                           /\ m2.body_length_cm >= m1.body_length_cm
                    /\ (w2 = w1 /\ h2 > h1) =>
                           /\ m2.chest_cm <= m1.chest_cm
                           /\ m2.body_length_cm <= m1.body_length_cm

\* A box has been measured for which a wider box of the same height and
\* posture, and a taller box of the same width and posture, exist.
C14_Witness ==
    /\ a_call.fn = "estimate_body_metrics"
    /\ \E second \in AnalysisBboxes :
           /\ BoxHeight(second) = CallHeight
           /\ BoxWidth(second) > CallWidth
           /\ estimate_body_metrics(second).posture = a_ret.metrics.posture
           /\ estimate_body_metrics(second).chest_cm > a_ret.metrics.chest_cm
    /\ \E second \in AnalysisBboxes :
           /\ BoxWidth(second) = CallWidth
           /\ BoxHeight(second) > CallHeight
           /\ estimate_body_metrics(second).posture = a_ret.metrics.posture
           /\ estimate_body_metrics(second).body_length_cm
                  < a_ret.metrics.body_length_cm

\* C15: the measurement confidence equals round(min(1, w * h / 90000) * 0.6
\* + aspect_score * 0.4, 2), where aspect_score is 1.0 exactly when
\* 0.6 < w/h < 1.8, strictly on both sides, and 0.6 otherwise; the result
\* lies in [0, 1].
C15_MeasurementConfidence ==
    a_call.fn = "estimate_body_metrics" =>
        LET w == CallWidth
            h == CallHeight
            aspect_term == IF 6 * h < 10 * w /\ 10 * w < 18 * h THEN 40 ELSE 24
        IN  /\ a_ret.metrics.confidence =
                   RoundHalfEven(Min(w * h, 90000) * 60 + aspect_term * 90000,
                                 90000)
            /\ a_ret.metrics.confidence \in 0..100

\* A box of ratio exactly 1.8 has been measured with aspect_score 0.6.
C15_Witness ==
    /\ a_call.fn = "estimate_body_metrics"
    /\ 10 * CallWidth = 18 * CallHeight
    /\ a_ret.metrics.confidence =
           RoundHalfEven(CallWidth * CallHeight * 60 + 24 * 90000, 90000)

\* C16: quality_flag is "good" exactly when the confidence > 0.75, "medium"
\* exactly when 0.5 < confidence <= 0.75 and "poor" otherwise, the
\* confidence being the one already rounded to 2 decimals: 0.75 is medium
\* and 0.5 is poor.
C16_QualityFlag ==
    a_call.fn = "estimate_body_metrics" =>
        LET confidence == a_ret.metrics.confidence
            flag == a_ret.metrics.quality_flag
        IN  /\ flag \in {"good", "medium", "poor"}
            /\ flag = "good" <=> confidence > 75
            /\ flag = "medium" <=> (50 < confidence /\ confidence <= 75)
            /\ flag = "poor" <=> confidence <= 50

\* A box whose confidence rounds to exactly 0.75 has been flagged medium.
C16_Witness ==
    /\ a_call.fn = "estimate_body_metrics"
    /\ a_ret.metrics.confidence = 75
    /\ a_ret.metrics.quality_flag = "medium"

\* C17: estimate_weight returns round((chest_cm^2 * body_length_cm / 3000)
\* * modifier, 1) with modifier 1.15, 1.10, 1.05, 0.95, 1.0 for maine_coon,
\* ragdoll, british_shorthair, siamese, unknown; a breed that is not in
\* the table ("persian") takes 1.0 and a value is returned.
C17_WeightFormula ==
    a_call.fn = "estimate_weight" =>
        LET modifier == CASE a_call.breed = "maine_coon" -> 115
                          [] a_call.breed = "ragdoll" -> 110
                          [] a_call.breed = "british_shorthair" -> 105
                          [] a_call.breed = "siamese" -> 95
                          [] OTHER -> 100
        IN  a_ret.weight =
                RoundProduct(a_call.chest_cm * a_call.chest_cm,
                             a_call.body_length_cm * modifier, 30000000)

\* estimate_weight(44.6, 38.2, "persian") has returned 25.3.
C17_Witness ==
    /\ a_call.fn = "estimate_weight"
    /\ a_call.breed = "persian"
    /\ a_call.chest_cm = 446
    /\ a_call.body_length_cm = 382
    /\ a_ret.weight = 253

\* C18: determine_size takes the first matching band, from the smallest:
\* XS if weight < 2.5 or chest < 24; else S if weight < 4.0 or chest < 32;
\* else M if weight < 6.0 or chest < 38; else L if weight < 8.5 or
\* chest < 45; else XL.  The comparisons are strict.
C18_SizeBands ==
    a_call.fn = "determine_size" =>
        LET weight == a_call.weight
            chest == a_call.chest_cm
            size == a_ret.size
        IN  /\ size = "XS" <=> (weight < 25 \/ chest < 240)
            /\ size = "S" <=> /\ weight >= 25 /\ chest >= 240
                              /\ (weight < 40 \/ chest < 320)
            /\ size = "M" <=> /\ weight >= 40 /\ chest >= 320
                              /\ (weight < 60 \/ chest < 380)
            /\ size = "L" <=> /\ weight >= 60 /\ chest >= 380
                              /\ (weight < 85 \/ chest < 450)
            /\ size = "XL" <=> (weight >= 85 /\ chest >= 450)

\* determine_size(3.9, 40.0) has returned S: the weight band wins.
C18_Witness ==
    /\ a_call.fn = "determine_size"
    /\ a_call.weight = 39
    /\ a_call.chest_cm = 400
    /\ a_ret.size = "S"

\* C19: every result of analyze_cat for a box with w >= 1 and h >= 1 has
\* weight > 0 and size_category in {XS, S, M, L, XL}.
C19_PositiveWeight ==
    (a_call.fn = "analyze_cat" /\ CallWidth >= 1 /\ CallHeight >= 1)
    => /\ a_ret.analysis.weight > 0
       /\ a_ret.analysis.size_category \in {"XS", "S", "M", "L", "XL"}

C21_SuppliedBreedIsUsed ==
    a_call.fn = "analyze_cat_breed" =>
        LET analysis == a_ret.analysis
            modifier == CASE a_call.breed = "maine_coon" -> 115
                          [] a_call.breed = "ragdoll" -> 110
                          [] a_call.breed = "british_shorthair" -> 105
                          [] a_call.breed = "siamese" -> 95
                          [] OTHER -> 100
        IN  /\ ~a_ret.raised
            /\ analysis.breed = a_call.breed
            /\ analysis.weight =
                   RoundProduct(analysis.metrics.chest_cm * analysis.metrics.chest_cm,
                                analysis.metrics.body_length_cm * modifier, 30000000)

\* C22: estimate_body_metrics never divides by zero: for any four integers
\* x1, y1, x2, y2, also with x2 <= x1 or y2 <= y1, the width and the height
\* are at least 1 and the effective torso height is at least 1 where it
\* divides.
C22_NoDivisionByZero ==
    a_call.fn = "estimate_body_metrics" =>
        LET locals == a_ret.locals
        IN  /\ locals.w >= 1
            /\ locals.h >= 1
            /\ locals.ratio_divisor >= 1
            /\ locals.pixel_divisor >= 100
            /\ locals.aspect_divisor >= 1
            /\ a_ret.metrics.posture \in {"lying", "sitting", "standing"}

\* An inverted box (x2 < x1 and y2 < y1) has been measured as a 1 x 1 box.
C22_Witness ==
    /\ a_call.fn = "estimate_body_metrics"
    /\ a_call.bbox.w < a_call.bbox.x
    /\ a_call.bbox.h < a_call.bbox.y
    /\ a_ret.locals.w = 1
    /\ a_ret.locals.h = 1
    /\ a_ret.metrics.posture = "standing"

SizeRank(size) ==
    CASE size = "XS" -> 1 [] size = "S" -> 2 [] size = "M" -> 3
      [] size = "L" -> 4 [] size = "XL" -> 5 [] OTHER -> 0

\* The band of one quantity alone, by its four thresholds.
Band(value, t1, t2, t3, t4) ==
    IF value < t1 THEN 1 ELSE IF value < t2 THEN 2
    ELSE IF value < t3 THEN 3 ELSE IF value < t4 THEN 4 ELSE 5

\* C23: determine_size is the smaller of the band of the weight alone
\* (2.5, 4, 6, 8.5) and the band of the chest alone (24, 32, 38, 45); a
\* larger weight or chest never gives a smaller category, and XL is
\* returned exactly when weight >= 8.5 and chest >= 45.
C23_SmallerOfTwoBands ==
    a_call.fn = "determine_size" =>
        LET rank == SizeRank(a_ret.size)
        IN  /\ rank = Min(Band(a_call.weight, 25, 40, 60, 85),
                          Band(a_call.chest_cm, 240, 320, 380, 450))
            /\ \A larger \in SizeArgs :
                   (larger.weight >= a_call.weight /\ larger.chest_cm >= a_call.chest_cm)
                   => SizeRank(determine_size(larger.weight, larger.chest_cm)) >= rank
            /\ a_ret.size = "XL" <=> (a_call.weight >= 85 /\ a_call.chest_cm >= 450)

\* determine_size(8.5, 44.9) has returned L: the chest band is the smaller.
C23_Witness ==
    /\ a_call.fn = "determine_size"
    /\ a_call.weight = 85
    /\ a_call.chest_cm = 449
    /\ a_ret.size = "L"

\* ----------------------------------------- properties of the serving layer
\* C24: once analyze_cat_endpoint has written the downloaded image to its
\* temporary file, the file no longer exists when the endpoint finishes, on
\* every path: cat found, no cat, and an exception in detection, analysis
\* or formatting.
C24_TempFileRemoved ==
    \A c \in Callers : pc[c] \in {"idle", "done"} => c \notin temp_files

\* The endpoint has finished with an error raised after the file was
\* written (a cat was detected and the analysis raised), and the file is gone.
C24_Witness ==
    \E c \in Callers :
        /\ req[c].entry = "endpoint"
        /\ pc[c] = "done"
        /\ req[c].download_ok
        /\ detect_result[c].is_cat
        /\ response[c].status = 500
        /\ c \notin temp_files

\* C25: a request whose token verify_firebase_token accepts is treated as
\* authenticated by analyze_cat_endpoint: the endpoint reads the caller's
\* uid from the dict the dependency returns and does not answer 401
\* "Invalid Firebase token".
C25_AcceptedTokenIsAuthenticated ==
    \A c \in Callers :
        (req[c].entry = "endpoint" /\ pc[c] = "done" /\ req[c].user \in AcceptedUsers)
        => response[c].status # 401

\* C26: verify_firebase_token returns a user dict only for a token whose
\* signature was verified; a token whose signature check did not succeed
\* is rejected with 401, whatever the text of the verification error.
C26_SignatureRequired ==
    (auth_call.fn = "verify_firebase_token" /\ auth_call.enabled
        /\ auth_call.token.credentials)
    => /\ auth_ret.status = 200 => auth_call.token.signature_ok
       /\ ~auth_call.token.signature_ok => auth_ret.status = 401

\* The user a request comes from, whatever key of the dict holds the uid.
CallerUid(user) == IF "uid" \in user.keys THEN user.uid ELSE user.firebase_uid

C28_AdminOnly ==
    (crud.fn = "get_all_cats_admin" /\ ~crud.is_admin)
    => /\ crud_resp.status = 403
       /\ crud_resp.rows = {}

\* C30: update_cat changes only the fields the payload holds, and
\* updated_at: every other field of the row, id and firebase_uid included,
\* keeps its value, as does every other row; when the commit fails the
\* stored row is unchanged.
C30_UpdateFrame ==
    crud.fn = "update_cat" =>
        LET before == cats_before[crud.cat_id]
            after == cats[crud.cat_id]
        IN  /\ \A i \in CatIds \ {crud.cat_id} : cats[i] = cats_before[i]
            /\ crud_resp.status # 200 => cats = cats_before
            /\ crud_resp.status = 200 =>
                   /\ after.id = before.id
                   /\ after.firebase_uid = before.firebase_uid
                   /\ after.name = IF "name" \in crud.payload.set
                                   THEN crud.payload.name ELSE before.name
                   /\ after.weight = IF "weight" \in crud.payload.set
                                     THEN crud.payload.weight ELSE before.weight
                   /\ after.updated_at = "now"
                   /\ crud_resp.rows = {after}

\* An update that holds only the name has changed the name and kept the
\* weight.
C30_Witness ==
    /\ crud.fn = "update_cat"
    /\ crud_resp.status = 200
    /\ crud.payload.set = {"name"}
    /\ cats[crud.cat_id].name # cats_before[crud.cat_id].name
    /\ cats[crud.cat_id].weight = cats_before[crud.cat_id].weight
    /\ cats[crud.cat_id].weight # 0

\* C29: the pool is a singleton: for any interleaving of create_db_pool and
\* get_db_pool coroutines at most one pool is open at a time, and a pool
\* that was returned to a caller and is still open is the pool _pool holds.
C29_PoolIsSingleton ==
    /\ Cardinality(pools_open) <= 1
    /\ \A k \in Coroutines :
           (co_pc[k] = "returned" /\ co_pool[k] \in pools_open)
           => co_pool[k] = pool
====
